---- MODULE Spec2Model ----
(***************************************************************************)
(* RadixAttention cache manager of agenthands/mlxvllm.                     *)
(*                                                                         *)
(* The model follows internal/radix (Node, Tree) and the request           *)
(* orchestrator of internal/http (GenerateAutoregressive, finalizeNode).   *)
(* Nodes live in an arena: node 0 is Tree.Root, node k >= 1 is the k-th    *)
(* node allocated by NewNode.  A *Node pointer is the arena index, the nil *)
(* pointer is Nil.                                                         *)
(***************************************************************************)
EXTENDS Integers, Sequences, FiniteSets, TLC

\* ---------------------------------------------------------------- bounds
MaxNodes == 2      \* nodes InsertPending may allocate (one more in SpecRetry)
MaxLen == 2        \* longest token sequence a caller passes
MaxTok == 2        \* token identifiers are 1..MaxTok
MaxRef == 2        \* largest refCount a reuse may produce
MaxBudget == 2     \* largest value given to -max-cache-size
MaxReq == 2        \* chat-completion requests served
MaxGen == 1        \* largest max_tokens of a request (0 is "no limit")
MaxWaiters == 2    \* goroutines that call Node.Wait
MaxEvict == 2      \* largest count given to EvictLRU
MaxMsgs == 1       \* most messages in the body of a chat-completion request
MaxUnpinners == 2  \* goroutines that run Tree.Unpin step by step

Tok == 1..MaxTok
Nil == -1
Root == 0
NoErr == "nil"
Errors == {"OOM"}
WaitErrors == {"OOM", "Timeout"}     \* errors handed to PoisonNode by the callers of Wait

SeqsOfLen(n) == [1..n -> Tok]
Seqs == UNION {SeqsOfLen(n) : n \in 1..MaxLen}
Queries == UNION {SeqsOfLen(n) : n \in 0..(MaxLen + 1)}

VARIABLES
    node,          \* arena: node[i] is the Node struct of node i
    lruList,       \* Tree.lruList, front first
    next_id,       \* CacheRegistry.next_id_ of the engine
    freed,         \* handles passed to FreeCache, in call order
    maxCacheSize,  \* value of the -max-cache-size flag
    req,           \* the requests: position of GenerateAutoregressive and of its finalizeNode goroutine
    panicked,      \* a goroutine has panicked (close of a closed channel): the process is gone
    reqOf,         \* history: reqOf[i] is the sequence InsertPending was called with when it allocated node i
    fwdCalls,      \* history: fwdCalls[i] counts the ForwardWithCache calls issued for node i
    termCalls,     \* history: termCalls[i] counts the FinalizeNode and PoisonNode calls on node i
    herd,          \* history: the calls so far are all InsertPending of one sequence
    matchRes,      \* history: the query and result of the Match call that produced this state
    pruned,        \* history: the call that produced this state was PrunePoisoned
    waiter,        \* the goroutines in Node.Wait: where each stands and what its last Wait gave it
    passed,        \* history: passed[i] is the argument of the FinalizeNode or PoisonNode call on node i
    doubleUnpin,   \* history: the call that produced this state was an Unpin of a node with refCount 0
    unpinner,      \* the goroutines inside Tree.Unpin: where each stands, its node and its newCount
    mu,            \* Tree.mu: the thread that holds it for writing, the threads that hold it for reading
    reg,           \* the model Registry: models (name -> ModelStatus), loaded, totalGB
    regRet         \* the last LoadModel/UnloadModel call: its name, its error, whether the model was loaded

vars == <<node, lruList, next_id, freed, maxCacheSize, req, panicked,
          reqOf, fwdCalls, termCalls, herd, matchRes, pruned, waiter, passed, doubleUnpin,
          unpinner, mu, reg, regRet>>

\* ---------------------------------------------------------------- Node
NewNode(tokens, parent) ==
    [Tokens |-> tokens,
     Children |-> [t \in Tok |-> Nil],
     Parent |-> parent,
     CacheHandle |-> 0,
     ready |-> FALSE,          \* TRUE once close(n.ready) has run
     err |-> NoErr,
     refCount |-> 0,
     lruElem |-> FALSE]        \* TRUE iff lruElem # nil

IsReady(nd, n) == nd[n].ready

NumChildren(nd, n) == Cardinality({t \in Tok : nd[n].Children[t] # Nil})

Ids(nd) == DOMAIN nd

RECURSIVE ReachFrom(_, _)
ReachFrom(nd, n) ==
    {n} \cup UNION {ReachFrom(nd, nd[n].Children[t]) : t \in {u \in Tok : nd[n].Children[u] # Nil}}

\* the nodes attached to the trie
Attached(nd) == ReachFrom(nd, Root)

RECURSIVE PathTokens(_, _)
PathTokens(nd, n) ==
    IF n = Root \/ nd[n].Parent = Nil THEN nd[n].Tokens
    ELSE PathTokens(nd, nd[n].Parent) \o nd[n].Tokens

RECURSIVE Ancestors(_, _)
Ancestors(nd, n) ==
    IF nd[n].Parent = Nil THEN {} ELSE {nd[n].Parent} \cup Ancestors(nd, nd[n].Parent)

IsPrefix(a, b) == Len(a) <= Len(b) /\ \A i \in 1..Len(a) : a[i] = b[i]

Tail0(s, k) == SubSeq(s, k + 1, Len(s))     \* the Go slice s[k:]

\* ---------------------------------------------------------------- Tree
RECURSIVE lcpFrom(_, _, _, _)
lcpFrom(a, b, i, minLen) ==
    IF i > minLen THEN minLen
    ELSE IF a[i] # b[i] THEN i - 1
    ELSE lcpFrom(a, b, i + 1, minLen)

longestCommonPrefix(a, b) ==
    lcpFrom(a, b, 1, IF Len(b) < Len(a) THEN Len(b) ELSE Len(a))

\* a match loop that takes a ready child even when query and edge diverge
RECURSIVE matchLoop_Diverge(_, _, _, _)
matchLoop_Diverge(nd, current, tokens, bestMatch) ==
    LET child == nd[current].Children[tokens[1]] IN
    IF child = Nil THEN bestMatch
    ELSE LET common == longestCommonPrefix(tokens, nd[child].Tokens) IN
         IF common = 0 THEN bestMatch
         ELSE IF common = Len(nd[child].Tokens)
              THEN LET best == IF IsReady(nd, child) THEN child ELSE bestMatch
                       rest == Tail0(tokens, common)
                   IN IF Len(rest) = 0 THEN best
                      ELSE matchLoop_Diverge(nd, child, rest, best)
              ELSE IF IsReady(nd, child) THEN child
                   ELSE bestMatch

RECURSIVE matchLoop(_, _, _, _)
matchLoop(nd, current, tokens, bestMatch) ==
    LET child == nd[current].Children[tokens[1]] IN
    IF child = Nil THEN bestMatch
    ELSE LET common == longestCommonPrefix(tokens, nd[child].Tokens) IN
         IF common = 0 THEN bestMatch
         ELSE IF common = Len(nd[child].Tokens)
              THEN LET best == IF IsReady(nd, child) THEN child ELSE bestMatch
                       rest == Tail0(tokens, common)
                   IN IF Len(rest) = 0 THEN best ELSE matchLoop(nd, child, rest, best)
              ELSE IF common = Len(tokens) /\ IsReady(nd, child) THEN child
                   ELSE bestMatch

match(nd, tokens) ==
    IF Len(tokens) = 0 THEN Root ELSE matchLoop(nd, Root, tokens, Nil)

\* a lookup that never reports an existing node, so that every call creates
findExactOrPending_NoReuse(nd, tokens, current) == <<Nil, tokens>>

RECURSIVE findExactOrPending(_, _, _)
findExactOrPending(nd, tokens, current) ==
    IF Len(tokens) = 0 THEN <<current, <<>>>>
    ELSE LET child == nd[current].Children[tokens[1]] IN
         IF child = Nil THEN <<Nil, tokens>>
         ELSE LET common == longestCommonPrefix(tokens, nd[child].Tokens) IN
              IF common = Len(nd[child].Tokens) /\ common = Len(tokens)
              THEN IF nd[child].err # NoErr THEN <<Nil, tokens>> ELSE <<child, <<>>>>
              ELSE IF common = Len(nd[child].Tokens)
                   THEN findExactOrPending(nd, Tail0(tokens, common), child)
                   ELSE <<Nil, tokens>>

RECURSIVE findParentFor(_, _, _)
findParentFor(nd, tokens, current) ==
    IF Len(tokens) = 0 THEN current
    ELSE LET child == nd[current].Children[tokens[1]] IN
         IF child = Nil THEN current
         ELSE LET common == longestCommonPrefix(tokens, nd[child].Tokens) IN
              IF nd[child].err # NoErr /\ common >= Len(tokens)
              THEN findParentFor(nd, Tail0(tokens, common), child)
              ELSE IF common = Len(nd[child].Tokens)
                   THEN findParentFor(nd, Tail0(tokens, common), child)
                   ELSE current

\* the node InsertPending(tokens) returns: an existing node, or the index the
\* node it allocates will get
InsertRet(nd, tokens) ==
    LET existing == findExactOrPending(nd, tokens, Root)[1]
    IN IF existing # Nil THEN existing ELSE Cardinality(Ids(nd))

\* InsertPending that forgets existing.refCount.Add(1) on the reuse path
InsertTree_NoPin(nd, tokens) ==
    LET found == findExactOrPending(nd, tokens, Root)
        existing == found[1]
        remaining == found[2]
    IN IF existing # Nil
       THEN nd
       ELSE LET parent == findParentFor(nd, tokens, Root)
                id == Cardinality(Ids(nd))
                newNode == [NewNode(remaining, parent) EXCEPT !.refCount = 1]
            IN [nd EXCEPT ![parent].Children[remaining[1]] = id] @@ (id :> newNode)

\* the arena after InsertPending(tokens)
InsertTree(nd, tokens) ==
    LET found == findExactOrPending(nd, tokens, Root)
        existing == found[1]
        remaining == found[2]
    IN IF existing # Nil
       THEN [nd EXCEPT ![existing].refCount = @ + 1]
       ELSE LET parent == findParentFor(nd, tokens, Root)
                id == Cardinality(Ids(nd))
                newNode == [NewNode(remaining, parent) EXCEPT !.refCount = 1]
                nd1 == IF Len(remaining) > 0
                       THEN [nd EXCEPT ![parent].Children[remaining[1]] = id]
                       ELSE nd
            IN nd1 @@ (id :> newNode)

\* a prune that also takes out the children that are still pending
prunePoisonedRecursive_AlsoPending(nd, n) ==
    [nd EXCEPT ![n].Children =
        [t \in Tok |-> IF @[t] # Nil /\ (nd[@[t]].err # NoErr \/ ~nd[@[t]].ready)
                       THEN Nil ELSE @[t]]]

\* a prune that looks at the children of one node only and does not recurse
prunePoisonedRecursive_Shallow(nd, n) ==
    [nd EXCEPT ![n].Children =
        [t \in Tok |-> IF @[t] # Nil /\ nd[@[t]].err # NoErr THEN Nil ELSE @[t]]]

RECURSIVE pruneChildren(_, _, _)
RECURSIVE prunePoisonedRecursive(_, _)
\* the loop of prunePoisonedRecursive over the children stored under keys
pruneChildren(nd, n, keys) ==
    IF keys = {} THEN nd
    ELSE LET token == CHOOSE t \in keys : TRUE
             child == nd[n].Children[token]
             nd1 == IF child = Nil THEN nd ELSE prunePoisonedRecursive(nd, child)
             nd2 == IF child # Nil /\ nd1[child].err # NoErr
                    THEN [nd1 EXCEPT ![n].Children[token] = Nil]
                    ELSE nd1
         IN pruneChildren(nd2, n, keys \ {token})

prunePoisonedRecursive(nd, n) == pruneChildren(nd, n, Tok)

\* sum of len(Tokens) over the non-root nodes attached to the trie
RECURSIVE SumTokens(_, _)
SumTokens(nd, S) ==
    IF S = {} THEN 0
    ELSE LET n == CHOOSE x \in S : TRUE IN Len(nd[n].Tokens) + SumTokens(nd, S \ {n})

TotalTokens(nd) == SumTokens(nd, Attached(nd) \ {Root})


\* an Unpin that leaves the count where the decrement put it
UnpinTree_NoRestore(nd, n) ==
    LET newCount == nd[n].refCount - 1 IN
    IF newCount = 0 /\ NumChildren(nd, n) = 0 /\ IsReady(nd, n) /\ ~nd[n].lruElem
    THEN [nd EXCEPT ![n].refCount = newCount, ![n].lruElem = TRUE]
    ELSE [nd EXCEPT ![n].refCount = newCount]

\* Node.lruElem and Tree.lruList after Tree.Unpin(n)
UnpinTree(nd, n) ==
    LET newCount == nd[n].refCount - 1 IN
    IF newCount < 0 THEN nd
    ELSE IF newCount = 0 /\ NumChildren(nd, n) = 0 /\ IsReady(nd, n) /\ ~nd[n].lruElem
         THEN [nd EXCEPT ![n].refCount = newCount, ![n].lruElem = TRUE]
         ELSE [nd EXCEPT ![n].refCount = newCount]

UnpinList(nd, lru, n) ==
    LET newCount == nd[n].refCount - 1 IN
    IF newCount = 0 /\ NumChildren(nd, n) = 0 /\ IsReady(nd, n) /\ ~nd[n].lruElem
    THEN <<n>> \o lru
    ELSE lru

\* the evictor (spec 4.4).  st is [nd, lru, freed]: the arena, the LRU list
\* (front first) and the handles given to free_cache.
\* one round: victim = lru.pop_back(); release victim from parent.children;
\* schedule free_cache(victim.handle); push an unpinned ready childless
\* non-root parent to the front
evictOne(st) ==
    LET victim == st.lru[Len(st.lru)]
        parent == st.nd[victim].Parent
        nd1 == [st.nd EXCEPT ![parent].Children = [t \in Tok |-> IF @[t] = victim THEN Nil ELSE @[t]],
                             ![victim].lruElem = FALSE]
        lru1 == SubSeq(st.lru, 1, Len(st.lru) - 1)
        cascade == /\ parent # Root
                   /\ NumChildren(nd1, parent) = 0
                   /\ nd1[parent].refCount = 0
                   /\ nd1[parent].ready /\ nd1[parent].err = NoErr
                   /\ ~nd1[parent].lruElem
    IN [nd |-> IF cascade THEN [nd1 EXCEPT ![parent].lruElem = TRUE] ELSE nd1,
        lru |-> IF cascade THEN <<parent>> \o lru1 ELSE lru1,
        freed |-> Append(st.freed, st.nd[victim].CacheHandle)]

RECURSIVE evictLoop(_, _)
evictLoop(st, rounds) ==
    IF rounds = 0 THEN st ELSE evictLoop(evictOne(st), rounds - 1)

\* EvictLRU(k) runs min(k, lruList.Len()) rounds
evictLRU(st, k) == evictLoop(st, IF k < Len(st.lru) THEN k ELSE Len(st.lru))

\* FinalizeNode and PoisonNode: the field write, then close(n.ready)
FinalizeTree(nd, n, handle) == [nd EXCEPT ![n].CacheHandle = handle, ![n].ready = TRUE]

\* a PoisonNode that closes the gate without storing the error
PoisonTree_DropErr(nd, n, e) == [nd EXCEPT ![n].ready = TRUE]

PoisonTree(nd, n, e) == [nd EXCEPT ![n].err = e, ![n].ready = TRUE]

\* ---------------------------------------------------------------- history
NotHerd == [pure |-> FALSE, tokens |-> <<>>, n |-> 0, rets |-> {}]

NoMatch == [called |-> FALSE, tokens |-> <<>>, ret |-> Nil]

Bump(counts, n) == [counts EXCEPT ![n] = @ + 1]

\* ---------------------------------------------------------------- requests
NoReq == [pc |-> "idle", gpc |-> "none", rejected |-> 0, input |-> <<>>, buffer |-> <<>>, baseNode |-> Nil,
          baseHandle |-> 0, node |-> Nil, newHandle |-> 0, err |-> NoErr]

Reqs == 1..MaxReq

\* ---------------------------------------------------------------- waiters
Waiters == 1..MaxWaiters

NoWait == [pc |-> "idle", n |-> Nil, err |-> NoErr, handle |-> 0]

NotPassed == [kind |-> "none", handle |-> 0, err |-> NoErr]

\* ---------------------------------------------------------------- unpinners
Unpinners == 1..MaxUnpinners

NoUnpin == [pc |-> "idle", n |-> Nil, newCount |-> 0]

\* ---------------------------------------------------------------- Tree.mu
Pruner == 0      \* the thread that calls PrunePoisoned; requests are 1..MaxReq

Unlocked == [writer |-> Nil, readers |-> {}]

\* ---------------------------------------------------------------- model registry
\* the models enabled in the configuration, and a name that is not configured
ModelNames == {"gui-actor-2b", "gui-actor-7b", "gui-actor-72b", "ui-tars"}

CallNames == ModelNames \cup {"unknown-model"}

estimateMemoryGB(name) ==
    CASE name = "gui-actor-2b" -> 4
      [] name = "gui-actor-7b" -> 14
      [] OTHER -> 8

NewRegistry(enabled) ==
    [models |-> [name \in enabled |->
                    [Name |-> name, Loaded |-> FALSE, MemoryGB |-> estimateMemoryGB(name)]],
     loaded |-> {},
     totalGB |-> 0]

NoCall == [op |-> "none", name |-> "", err |-> "nil", wasLoaded |-> FALSE]

\* makeRoom has an empty body
makeRoom(r, requiredGB) == r

\* ---------------------------------------------------------------- Init
Init ==
    /\ node = (Root :> NewNode(<<>>, Nil))
    /\ lruList = <<>>
    /\ next_id = 1
    /\ freed = <<>>
    /\ maxCacheSize \in 1..MaxBudget
    /\ req = [r \in Reqs |-> NoReq]
    /\ panicked = FALSE
    /\ reqOf = <<>>
    /\ fwdCalls = <<>>
    /\ termCalls = <<>>
    /\ herd = [pure |-> TRUE, tokens |-> <<>>, n |-> 0, rets |-> {}]
    /\ matchRes = NoMatch
    /\ pruned = FALSE
    /\ waiter = [w \in Waiters |-> NoWait]
    /\ passed = <<>>
    /\ doubleUnpin = FALSE
    /\ unpinner = [u \in Unpinners |-> NoUnpin]
    /\ mu = Unlocked
    /\ reg = NewRegistry(ModelNames)
    /\ regRet = NoCall

\* ---------------------------------------------------------------- Tree API
\* Tree.InsertPending(tokens): the whole body runs under t.mu.Lock(), so
\* concurrent calls take effect one after the other.  cap bounds the arena.
InsertPendingN(tokens, cap) ==
    LET ret == InsertRet(node, tokens) IN
    /\ ret \in Ids(node) => node[ret].refCount < MaxRef
    /\ ret \notin Ids(node) => Len(reqOf) < cap
    /\ node' = InsertTree(node, tokens)
    /\ reqOf' = IF ret \in Ids(node) THEN reqOf ELSE Append(reqOf, tokens)
    /\ fwdCalls' = IF ret \in Ids(node) THEN fwdCalls ELSE Append(fwdCalls, 0)
    /\ termCalls' = IF ret \in Ids(node) THEN termCalls ELSE Append(termCalls, 0)
    /\ passed' = IF ret \in Ids(node) THEN passed ELSE Append(passed, NotPassed)
    /\ UNCHANGED waiter
    /\ herd' = IF herd.pure /\ (herd.n = 0 \/ herd.tokens = tokens)
               THEN [pure |-> TRUE, tokens |-> tokens, n |-> herd.n + 1,
                     rets |-> herd.rets \cup {ret}]
               ELSE NotHerd
    /\ matchRes' = NoMatch
    /\ pruned' = FALSE
    /\ doubleUnpin' = FALSE
    /\ UNCHANGED <<unpinner, mu, reg, regRet>>
    /\ UNCHANGED <<lruList, next_id, freed, maxCacheSize, req, panicked>>

InsertPending(tokens) == InsertPendingN(tokens, MaxNodes)

\* FinalizeNode(n, handle) by the caller that drove the forward pass of the
\* pending node n; handle is the one the engine has just issued
FinalizeNode(n) ==
    /\ n # Root
    /\ ~node[n].ready
    /\ node' = FinalizeTree(node, n, next_id)
    /\ passed' = [passed EXCEPT ![n] = [kind |-> "finalize", handle |-> next_id, err |-> NoErr]]
    /\ UNCHANGED waiter
    /\ next_id' = next_id + 1
    /\ termCalls' = Bump(termCalls, n)
    /\ herd' = NotHerd
    /\ matchRes' = NoMatch
    /\ pruned' = FALSE
    /\ doubleUnpin' = FALSE
    /\ UNCHANGED <<unpinner, mu, reg, regRet>>
    /\ UNCHANGED <<lruList, freed, maxCacheSize, req, panicked, reqOf, fwdCalls>>

\* PoisonNode(n, e) by the caller whose forward pass of the pending node n failed
PoisonNode(n, e) ==
    /\ n # Root
    /\ ~node[n].ready
    /\ node' = PoisonTree(node, n, e)
    /\ passed' = [passed EXCEPT ![n] = [kind |-> "poison", handle |-> 0, err |-> e]]
    /\ UNCHANGED waiter
    /\ termCalls' = Bump(termCalls, n)
    /\ herd' = NotHerd
    /\ matchRes' = NoMatch
    /\ pruned' = FALSE
    /\ doubleUnpin' = FALSE
    /\ UNCHANGED <<unpinner, mu, reg, regRet>>
    /\ UNCHANGED <<lruList, next_id, freed, maxCacheSize, req, panicked, reqOf, fwdCalls>>

\* Tree.Unpin(n)
Unpin(n) ==
    /\ n # Root
    /\ node' = UnpinTree(node, n)
    /\ lruList' = UnpinList(node, lruList, n)
    /\ UNCHANGED <<waiter, passed>>
    /\ herd' = NotHerd
    /\ matchRes' = NoMatch
    /\ pruned' = FALSE
    /\ doubleUnpin' = (node[n].refCount = 0)
    /\ UNCHANGED <<unpinner, mu, reg, regRet>>
    /\ UNCHANGED <<next_id, freed, maxCacheSize, req, panicked, reqOf, fwdCalls, termCalls>>

\* Tree.PrunePoisoned()
PrunePoisoned ==
    /\ node' = prunePoisonedRecursive(node, Root)
    /\ UNCHANGED <<waiter, passed>>
    /\ herd' = NotHerd
    /\ matchRes' = NoMatch
    /\ pruned' = TRUE
    /\ doubleUnpin' = FALSE
    /\ UNCHANGED <<unpinner, mu, reg, regRet>>
    /\ UNCHANGED <<lruList, next_id, freed, maxCacheSize, req, panicked, reqOf, fwdCalls, termCalls>>

\* a lookup that pins the node it returns
Match_Pin(tokens) ==
    LET ret == match(node, tokens) IN
    /\ matchRes' = [called |-> TRUE, tokens |-> tokens, ret |-> ret]
    /\ node' = IF ret \in Ids(node) \ {Root} /\ node[ret].refCount < MaxRef
               THEN [node EXCEPT ![ret].refCount = @ + 1]
               ELSE node
    /\ pruned' = FALSE
    /\ doubleUnpin' = FALSE
    /\ UNCHANGED <<unpinner, mu, reg, regRet>>
    /\ UNCHANGED <<lruList, next_id, freed, maxCacheSize, req, panicked,
                   reqOf, fwdCalls, termCalls, herd, waiter, passed>>

\* Tree.Match(tokens): read-only, under t.mu.RLock()
Match(tokens) ==
    /\ matchRes' = [called |-> TRUE, tokens |-> tokens, ret |-> match(node, tokens)]
    /\ pruned' = FALSE
    /\ doubleUnpin' = FALSE
    /\ UNCHANGED <<unpinner, mu, reg, regRet>>
    /\ UNCHANGED <<node, lruList, next_id, freed, maxCacheSize, req, panicked,
                   reqOf, fwdCalls, termCalls, herd, waiter, passed>>

\* the callers of the Tree API: any sequence of calls
Next ==
    \/ \E tokens \in Seqs : InsertPending(tokens)
    \/ \E n \in Ids(node) : FinalizeNode(n)
    \/ \E n \in Ids(node), e \in Errors : PoisonNode(n, e)
    \/ \E n \in Ids(node) : Unpin(n)
    \/ PrunePoisoned

Spec == Init /\ [][Next]_vars

\* callers that insert, finalize, poison and prune, with room for one more node
NextRetry ==
    \/ \E tokens \in Seqs : InsertPendingN(tokens, MaxNodes + 1)
    \/ \E n \in Ids(node) : FinalizeNode(n)
    \/ \E n \in Ids(node), e \in Errors : PoisonNode(n, e)
    \/ PrunePoisoned

SpecRetry == Init /\ [][NextRetry]_vars

\* callers that only insert and finalize, and then look prefixes up
NextInsFin ==
    \/ \E tokens \in Seqs : InsertPending(tokens)
    \/ \E n \in Ids(node) : FinalizeNode(n)
    \/ \E tokens \in Queries : Match(tokens)

SpecInsFin == Init /\ [][NextInsFin]_vars

\* Tree.EvictLRU(k)
EvictLRU(k) ==
    LET st == evictLRU([nd |-> node, lru |-> lruList, freed |-> freed], k) IN
    /\ node' = st.nd
    /\ lruList' = st.lru
    /\ freed' = st.freed
    /\ herd' = NotHerd
    /\ matchRes' = NoMatch
    /\ pruned' = FALSE
    /\ doubleUnpin' = FALSE
    /\ UNCHANGED <<unpinner, mu, reg, regRet>>
    /\ UNCHANGED <<next_id, maxCacheSize, req, panicked, reqOf, fwdCalls, termCalls,
                   waiter, passed>>

\* callers that insert, finalize, unpin and evict
NextEvict ==
    \/ \E tokens \in Seqs : InsertPending(tokens)
    \/ \E n \in Ids(node) : FinalizeNode(n)
    \/ \E n \in Ids(node) : Unpin(n)
    \/ \E k \in 0..MaxEvict : EvictLRU(k)

SpecEvict == Init /\ [][NextEvict]_vars

\* callers that insert, finalize and unpin only
NextLru ==
    \/ \E tokens \in Seqs : InsertPending(tokens)
    \/ \E n \in Ids(node) : FinalizeNode(n)
    \/ \E n \in Ids(node) : Unpin(n)

SpecLru == Init /\ [][NextLru]_vars

\* callers that insert, finalize and unpin, and look prefixes up in between
NextRead ==
    \/ \E tokens \in Seqs : InsertPending(tokens)
    \/ \E n \in Ids(node) : FinalizeNode(n)
    \/ \E n \in Ids(node) : Unpin(n)
    \/ \E tokens \in Queries : Match(tokens)

SpecRead == Init /\ [][NextRead]_vars

\* callers that insert sequences as long as the longest query, and finalize
\* or poison the nodes
NextLong ==
    \/ \E tokens \in Queries \ {<<>>} : InsertPending(tokens)
    \/ \E n \in Ids(node) : FinalizeNode(n)
    \/ \E n \in Ids(node), e \in Errors : PoisonNode(n, e)

SpecLong == Init /\ [][NextLong]_vars

\* ---------------------------------------------------------------- orchestrator
\* the generation loop of GenerateAutoregressive: it echoes the input, stops
\* after maxTokens tokens (when maxTokens > 0) and after token 0 or 2
RECURSIVE genLoop(_, _, _)
genLoop(inputTokens, maxTokens, generatedTokens) ==
    IF maxTokens > 0 /\ Len(generatedTokens) >= maxTokens THEN generatedTokens
    ELSE IF Len(generatedTokens) < Len(inputTokens)
         THEN LET nextToken == inputTokens[Len(generatedTokens) + 1]
                  appended == Append(generatedTokens, nextToken)
              IN IF nextToken = 0 \/ nextToken = 2 THEN appended
                 ELSE genLoop(inputTokens, maxTokens, appended)
         ELSE generatedTokens

Inputs == UNION {SeqsOfLen(n) : n \in 0..MaxLen}

\* GenerateAutoregressive up to the prefix lookup: s.tree.Match(inputTokens)
\* and the read of baseNode.CacheHandle.  The generation loop touches only
\* locals, so its result is kept from here on.
GenMatch(r, inputTokens, maxTokens) ==
    LET baseNode == match(node, inputTokens) IN
    /\ ~panicked
    /\ req[r].pc = "idle"
    /\ req' = [req EXCEPT ![r] = [@ EXCEPT
                  !.pc = IF baseNode # Nil THEN "wait" ELSE "insert",
                  !.input = inputTokens,
                  !.buffer = genLoop(inputTokens, maxTokens, <<>>),
                  !.baseNode = baseNode,
                  !.baseHandle = IF baseNode # Nil THEN node[baseNode].CacheHandle ELSE 0]]
    /\ UNCHANGED <<node, lruList, next_id, freed, maxCacheSize, panicked,
                   reqOf, fwdCalls, termCalls, herd, matchRes, pruned, doubleUnpin, unpinner, mu, reg, regRet, waiter, passed>>

\* baseNode.Wait() returns once the gate is closed
GenWait(r) ==
    /\ ~panicked
    /\ req[r].pc = "wait"
    /\ node[req[r].baseNode].ready
    /\ req' = [req EXCEPT ![r] = [@ EXCEPT
                  !.pc = "insert",
                  !.baseHandle = IF node[req[r].baseNode].err # NoErr THEN 0 ELSE @]]
    /\ UNCHANGED <<node, lruList, next_id, freed, maxCacheSize, panicked,
                   reqOf, fwdCalls, termCalls, herd, matchRes, pruned, doubleUnpin, unpinner, mu, reg, regRet, waiter, passed>>

\* the bulk insert: InsertPending(buffer) and go s.finalizeNode(node, currentHandle)
GenInsert(r) ==
    LET buffer == req[r].buffer
        ret == InsertRet(node, buffer)
    IN
    /\ ~panicked
    /\ req[r].pc = "insert"
    /\ IF Len(buffer) > 0
       THEN /\ node' = InsertTree(node, buffer)
            /\ reqOf' = IF ret \in Ids(node) THEN reqOf ELSE Append(reqOf, buffer)
            /\ fwdCalls' = IF ret \in Ids(node) THEN fwdCalls ELSE Append(fwdCalls, 0)
            /\ termCalls' = IF ret \in Ids(node) THEN termCalls ELSE Append(termCalls, 0)
            /\ passed' = IF ret \in Ids(node) THEN passed ELSE Append(passed, NotPassed)
            /\ req' = [req EXCEPT ![r] = [@ EXCEPT !.pc = "done", !.gpc = "forward", !.node = ret]]
       ELSE /\ req' = [req EXCEPT ![r] = [@ EXCEPT !.pc = "done"]]
            /\ UNCHANGED <<node, reqOf, fwdCalls, termCalls, passed>>
    /\ UNCHANGED <<lruList, next_id, freed, maxCacheSize, panicked, herd, matchRes, pruned, doubleUnpin, unpinner, mu, reg, regRet, waiter>>

\* finalizeNode: s.engine.ForwardWithCache(s.model, node.Tokens, baseHandle) succeeds
GoForwardOk(r) ==
    /\ ~panicked
    /\ req[r].gpc = "forward"
    /\ fwdCalls' = Bump(fwdCalls, req[r].node)
    /\ next_id' = next_id + 1
    /\ req' = [req EXCEPT ![r] = [@ EXCEPT !.gpc = "finalize", !.newHandle = next_id]]
    /\ UNCHANGED <<node, lruList, freed, maxCacheSize, panicked, reqOf, termCalls, herd, matchRes, pruned, doubleUnpin, unpinner, mu, reg, regRet, waiter, passed>>

\* finalizeNode: ForwardWithCache returns an error
GoForwardErr(r, e) ==
    /\ ~panicked
    /\ req[r].gpc = "forward"
    /\ fwdCalls' = Bump(fwdCalls, req[r].node)
    /\ req' = [req EXCEPT ![r] = [@ EXCEPT !.gpc = "poison", !.err = e]]
    /\ UNCHANGED <<node, lruList, next_id, freed, maxCacheSize, panicked, reqOf, termCalls,
                   herd, matchRes, pruned, doubleUnpin, unpinner, mu, reg, regRet, waiter, passed>>

\* finalizeNode: radix.PoisonNode(node, err); return.  close of a closed
\* channel panics
GoPoison(r) ==
    /\ ~panicked
    /\ req[r].gpc = "poison"
    /\ node' = PoisonTree(node, req[r].node, req[r].err)
    /\ passed' = [passed EXCEPT ![req[r].node] = [kind |-> "poison", handle |-> 0, err |-> req[r].err]]
    /\ panicked' = node[req[r].node].ready
    /\ termCalls' = Bump(termCalls, req[r].node)
    /\ req' = [req EXCEPT ![r] = [@ EXCEPT !.gpc = "done"]]
    /\ UNCHANGED <<lruList, next_id, freed, maxCacheSize, reqOf, fwdCalls, herd, matchRes, pruned, doubleUnpin, unpinner, mu, reg, regRet, waiter>>

\* finalizeNode: radix.FinalizeNode(node, newHandle)
GoFinalize(r) ==
    /\ ~panicked
    /\ req[r].gpc = "finalize"
    /\ node' = FinalizeTree(node, req[r].node, req[r].newHandle)
    /\ passed' = [passed EXCEPT ![req[r].node] = [kind |-> "finalize", handle |-> req[r].newHandle, err |-> NoErr]]
    /\ panicked' = node[req[r].node].ready
    /\ termCalls' = Bump(termCalls, req[r].node)
    /\ req' = [req EXCEPT ![r] = [@ EXCEPT !.gpc = "unpin"]]
    /\ UNCHANGED <<lruList, next_id, freed, maxCacheSize, reqOf, fwdCalls, herd, matchRes, pruned, doubleUnpin, unpinner, mu, reg, regRet, waiter>>

\* finalizeNode: s.tree.Unpin(node)
GoUnpin(r) ==
    /\ ~panicked
    /\ req[r].gpc = "unpin"
    /\ node' = UnpinTree(node, req[r].node)
    /\ lruList' = UnpinList(node, lruList, req[r].node)
    /\ req' = [req EXCEPT ![r] = [@ EXCEPT !.gpc = "done"]]
    /\ doubleUnpin' = (node[req[r].node].refCount = 0)
    /\ UNCHANGED <<unpinner, mu, reg, regRet>>
    /\ UNCHANGED <<next_id, freed, maxCacheSize, panicked, reqOf, fwdCalls, termCalls,
                   herd, matchRes, pruned, waiter, passed>>

NextServer ==
    \/ \E r \in Reqs, inputTokens \in Inputs, maxTokens \in 0..MaxGen :
          GenMatch(r, inputTokens, maxTokens)
    \/ \E r \in Reqs : GenWait(r)
    \/ \E r \in Reqs : GenInsert(r)
    \/ \E r \in Reqs : GoForwardOk(r)
    \/ \E r \in Reqs, e \in Errors : GoForwardErr(r, e)
    \/ \E r \in Reqs : GoPoison(r)
    \/ \E r \in Reqs : GoFinalize(r)
    \/ \E r \in Reqs : GoUnpin(r)

SpecServer == Init /\ [][NextServer]_vars

\* Every request that has entered GenerateAutoregressive keeps being
\* scheduled, and so does every finalizeNode goroutine that was launched:
\* the Go scheduler runs each runnable goroutine.  A goroutine blocked in
\* <-n.ready is not runnable, and GenWait is not enabled for it.
SpecServerLive ==
    /\ SpecServer
    /\ \A r \in Reqs :
          /\ WF_vars(GenWait(r))
          /\ WF_vars(GenInsert(r))
          /\ WF_vars(GoForwardOk(r) \/ \E e \in Errors : GoForwardErr(r, e))
          /\ WF_vars(GoPoison(r))
          /\ WF_vars(GoFinalize(r))
          /\ WF_vars(GoUnpin(r))

\* ---------------------------------------------------------------- front end
Methods == {"POST", "GET"}

\* a ChatMessage: Content is "" or some text, Image is absent, valid base64 or not
ChatMessages == [Role : {"user", "tool"}, Content : {"", "text"}, Image : {"", "valid", "invalid"}]

Bodies == UNION {[1..n -> ChatMessages] : n \in 0..MaxMsgs}

\* TokenizeChatRequest returns an error: no message, a role encodeRole does not
\* know, a content EncodeText refuses, or an image EncodeImage cannot decode
TokenizeFails(messages) ==
    \/ Len(messages) = 0
    \/ \E i \in 1..Len(messages) :
          \/ messages[i].Role \notin {"system", "user", "assistant"}
          \/ messages[i].Content = ""
          \/ messages[i].Image = "invalid"

\* a handler that does not look at the verb
rejectStatus_AnyVerb(method, decodes, messages) ==
    IF ~decodes THEN 400
    ELSE IF TokenizeFails(messages) THEN 400
    ELSE 0

\* the status ChatCompletionHandler answers with before it reaches
\* GenerateAutoregressive; 0 when it reaches it
rejectStatus(method, decodes, messages) ==
    IF method # "POST" THEN 405
    ELSE IF ~decodes THEN 400
    ELSE IF TokenizeFails(messages) THEN 400
    ELSE 0

\* ChatCompletionHandler for a request with the given verb and body (decodes:
\* json.Decode accepts it).  A rejected request returns after http.Error; an
\* accepted one enters GenerateAutoregressive with the tokens the tokenizer
\* returned, which may be any sequence.
ChatCompletionHandler(r, method, decodes, messages, maxTokens) ==
    IF rejectStatus(method, decodes, messages) # 0
    THEN /\ ~panicked
         /\ req[r].pc = "idle"
         /\ req' = [req EXCEPT ![r] = [@ EXCEPT
                       !.pc = "done",
                       !.rejected = rejectStatus(method, decodes, messages)]]
         /\ UNCHANGED <<node, lruList, next_id, freed, maxCacheSize, panicked,
                        reqOf, fwdCalls, termCalls, herd, matchRes, pruned, doubleUnpin, unpinner, mu, reg, regRet, waiter, passed>>
    ELSE \E inputTokens \in Inputs : GenMatch(r, inputTokens, maxTokens)

NextChat ==
    \/ \E r \in Reqs, method \in Methods, decodes \in BOOLEAN, messages \in Bodies,
          maxTokens \in 0..MaxGen :
          ChatCompletionHandler(r, method, decodes, messages, maxTokens)
    \/ \E r \in Reqs : GenWait(r)
    \/ \E r \in Reqs : GenInsert(r)
    \/ \E r \in Reqs : GoForwardOk(r)
    \/ \E r \in Reqs, e \in Errors : GoForwardErr(r, e)
    \/ \E r \in Reqs : GoPoison(r)
    \/ \E r \in Reqs : GoFinalize(r)
    \/ \E r \in Reqs : GoUnpin(r)

SpecChat == Init /\ [][NextChat]_vars

\* ---------------------------------------------------------------- Node.Wait
\* a goroutine calls n.Wait() and blocks on <-n.ready
WaitCall(w, n) ==
    /\ waiter[w].pc # "blocked"
    /\ waiter' = [waiter EXCEPT ![w] = [pc |-> "blocked", n |-> n, err |-> NoErr, handle |-> 0]]
    /\ UNCHANGED <<node, lruList, next_id, freed, maxCacheSize, req, panicked,
                   reqOf, fwdCalls, termCalls, herd, matchRes, pruned, doubleUnpin, unpinner, mu, reg, regRet, passed>>

\* a Wait that returns n.err whether or not the gate is closed
WaitReturn_NoGate(w) ==
    /\ waiter[w].pc = "blocked"
    /\ waiter' = [waiter EXCEPT ![w] = [@ EXCEPT !.pc = "returned",
                                                 !.err = node[waiter[w].n].err,
                                                 !.handle = node[waiter[w].n].CacheHandle]]
    /\ UNCHANGED <<node, lruList, next_id, freed, maxCacheSize, req, panicked,
                   reqOf, fwdCalls, termCalls, herd, matchRes, pruned, doubleUnpin, unpinner, mu, reg, regRet, passed>>

\* <-n.ready receives from the closed channel, Wait returns n.err, and the
\* caller reads n.CacheHandle
WaitReturn(w) ==
    /\ waiter[w].pc = "blocked"
    /\ node[waiter[w].n].ready
    /\ waiter' = [waiter EXCEPT ![w] = [@ EXCEPT !.pc = "returned",
                                                 !.err = node[waiter[w].n].err,
                                                 !.handle = node[waiter[w].n].CacheHandle]]
    /\ UNCHANGED <<node, lruList, next_id, freed, maxCacheSize, req, panicked,
                   reqOf, fwdCalls, termCalls, herd, matchRes, pruned, doubleUnpin, unpinner, mu, reg, regRet, passed>>

\* nodes are created, finalized or poisoned once by their owner, and waited on
NextWait ==
    \/ \E tokens \in Seqs : InsertPending(tokens)
    \/ \E n \in Ids(node) : FinalizeNode(n)
    \/ \E n \in Ids(node), e \in WaitErrors : PoisonNode(n, e)
    \/ \E w \in Waiters, n \in Ids(node) : WaitCall(w, n)
    \/ \E w \in Waiters : WaitReturn(w)

SpecWait == Init /\ [][NextWait]_vars

\* a goroutine blocked on a closed channel is runnable and the scheduler runs it
SpecWaitLive == SpecWait /\ \A w \in Waiters : WF_vars(WaitReturn(w))

\* ---------------------------------------------------------------- Unpin, step by step
\* Tree.Unpin takes no lock and its callers hold none (t.mu is private to the
\* package and finalizeNode calls Unpin bare), so other calls run between its
\* atomic decrement and the rest of its body.
\* first step: newCount := node.refCount.Add(-1), by a caller that releases a
\* pin the node has
UnpinDec(u, n) ==
    /\ n # Root
    /\ node[n].refCount >= 1
    /\ unpinner[u].pc = "idle"
    /\ node' = [node EXCEPT ![n].refCount = @ - 1]
    /\ unpinner' = [unpinner EXCEPT ![u] =
                       [pc |-> "dec", n |-> n, newCount |-> node[n].refCount - 1]]
    /\ herd' = NotHerd
    /\ matchRes' = NoMatch
    /\ pruned' = FALSE
    /\ doubleUnpin' = FALSE
    /\ UNCHANGED <<lruList, next_id, freed, maxCacheSize, req, panicked, reqOf, fwdCalls,
                   termCalls, waiter, passed, mu, reg, regRet>>

\* the rest of the body: restore a negative count and return, or test
\* newCount == 0 && len(node.Children) == 0 && node.IsReady() and push the node
\* when lruElem is nil
UnpinRest(u) ==
    LET n == unpinner[u].n
        newCount == unpinner[u].newCount
        push == /\ newCount = 0
                /\ NumChildren(node, n) = 0 /\ IsReady(node, n) /\ ~node[n].lruElem
    IN
    /\ unpinner[u].pc = "dec"
    /\ node' = IF newCount < 0 THEN [node EXCEPT ![n].refCount = @ + 1]
               ELSE IF push THEN [node EXCEPT ![n].lruElem = TRUE]
               ELSE node
    /\ lruList' = IF newCount >= 0 /\ push THEN <<n>> \o lruList ELSE lruList
    /\ unpinner' = [unpinner EXCEPT ![u] = NoUnpin]
    /\ herd' = NotHerd
    /\ matchRes' = NoMatch
    /\ pruned' = FALSE
    /\ doubleUnpin' = (newCount < 0)
    /\ UNCHANGED <<next_id, freed, maxCacheSize, req, panicked, reqOf, fwdCalls,
                   termCalls, waiter, passed, mu, reg, regRet>>

\* callers that insert and finalize while goroutines run Unpin
NextRace ==
    \/ \E tokens \in Seqs : InsertPending(tokens)
    \/ \E n \in Ids(node) : FinalizeNode(n)
    \/ \E u \in Unpinners, n \in Ids(node) : UnpinDec(u, n)
    \/ \E u \in Unpinners : UnpinRest(u)

SpecRace == Init /\ [][NextRace]_vars

\* ---------------------------------------------------------------- Tree.mu, lock by lock
\* The request pipeline with every t.mu.RLock/Lock and RUnlock/Unlock as a
\* step of its own; Node.Wait and the engine call keep the steps they have
\* in NextServer (GenWait, GoForwardOk, GoForwardErr).
Holders == mu.readers \cup (IF mu.writer = Nil THEN {} ELSE {mu.writer})

\* GenerateAutoregressive calls s.tree.Match: t.mu.RLock() is granted
RLock(r, inputTokens, maxTokens) ==
    /\ ~panicked
    /\ req[r].pc = "idle"
    /\ mu.writer = Nil
    /\ mu' = [mu EXCEPT !.readers = @ \cup {r}]
    /\ UNCHANGED <<reg, regRet>>
    /\ req' = [req EXCEPT ![r] = [@ EXCEPT
                  !.pc = "Match",
                  !.input = inputTokens,
                  !.buffer = genLoop(inputTokens, maxTokens, <<>>)]]
    /\ UNCHANGED <<node, lruList, next_id, freed, maxCacheSize, panicked, reqOf, fwdCalls,
                   termCalls, herd, matchRes, pruned, waiter, passed, doubleUnpin, unpinner>>

\* a Match that returns with the read lock still held
MatchLocked_KeepLock(r) ==
    LET baseNode == match(node, req[r].input) IN
    /\ ~panicked
    /\ req[r].pc = "Match"
    /\ req' = [req EXCEPT ![r] = [@ EXCEPT
                  !.pc = IF baseNode # Nil THEN "wait" ELSE "insert",
                  !.baseNode = baseNode,
                  !.baseHandle = IF baseNode # Nil THEN node[baseNode].CacheHandle ELSE 0]]
    /\ UNCHANGED <<node, lruList, next_id, freed, maxCacheSize, panicked, reqOf, fwdCalls,
                   termCalls, herd, matchRes, pruned, waiter, passed, doubleUnpin, unpinner, mu, reg, regRet>>

\* Match under the read lock: t.match(tokens), then the deferred RUnlock;
\* back in GenerateAutoregressive, the read of baseNode.CacheHandle
MatchLocked(r) ==
    LET baseNode == match(node, req[r].input) IN
    /\ ~panicked
    /\ req[r].pc = "Match"
    /\ mu' = [mu EXCEPT !.readers = @ \ {r}]
    /\ UNCHANGED <<reg, regRet>>
    /\ req' = [req EXCEPT ![r] = [@ EXCEPT
                  !.pc = IF baseNode # Nil THEN "wait" ELSE "insert",
                  !.baseNode = baseNode,
                  !.baseHandle = IF baseNode # Nil THEN node[baseNode].CacheHandle ELSE 0]]
    /\ UNCHANGED <<node, lruList, next_id, freed, maxCacheSize, panicked, reqOf, fwdCalls,
                   termCalls, herd, matchRes, pruned, waiter, passed, doubleUnpin, unpinner>>

\* GenerateAutoregressive calls s.tree.InsertPending(buffer, ...): t.mu.Lock()
\* is granted.  The buffer is empty only for an empty input, and that request
\* never gets past the wait on the root's gate.
Lock(r) ==
    /\ ~panicked
    /\ req[r].pc = "insert"
    /\ Len(req[r].buffer) > 0
    /\ mu = Unlocked
    /\ mu' = [mu EXCEPT !.writer = r]
    /\ UNCHANGED <<reg, regRet>>
    /\ req' = [req EXCEPT ![r] = [@ EXCEPT !.pc = "InsertPending"]]
    /\ UNCHANGED <<node, lruList, next_id, freed, maxCacheSize, panicked, reqOf, fwdCalls,
                   termCalls, herd, matchRes, pruned, waiter, passed, doubleUnpin, unpinner>>

\* InsertPending under the write lock, its t.mu.Unlock() and return, then
\* go s.finalizeNode(node, currentHandle)
InsertLocked(r) ==
    LET buffer == req[r].buffer
        ret == InsertRet(node, buffer)
    IN
    /\ ~panicked
    /\ req[r].pc = "InsertPending"
    /\ node' = InsertTree(node, buffer)
    /\ reqOf' = IF ret \in Ids(node) THEN reqOf ELSE Append(reqOf, buffer)
    /\ fwdCalls' = IF ret \in Ids(node) THEN fwdCalls ELSE Append(fwdCalls, 0)
    /\ termCalls' = IF ret \in Ids(node) THEN termCalls ELSE Append(termCalls, 0)
    /\ passed' = IF ret \in Ids(node) THEN passed ELSE Append(passed, NotPassed)
    /\ mu' = [mu EXCEPT !.writer = Nil]
    /\ UNCHANGED <<reg, regRet>>
    /\ req' = [req EXCEPT ![r] = [@ EXCEPT !.pc = "done", !.gpc = "forward", !.node = ret]]
    /\ UNCHANGED <<lruList, next_id, freed, maxCacheSize, panicked, herd, matchRes, pruned,
                   waiter, doubleUnpin, unpinner>>

\* PrunePoisoned: t.mu.Lock() is granted
LockPrune ==
    /\ ~panicked
    /\ mu = Unlocked
    /\ \E n \in Ids(node) : node[n].err # NoErr
    /\ mu' = [mu EXCEPT !.writer = Pruner]
    /\ UNCHANGED <<reg, regRet>>
    /\ UNCHANGED <<node, lruList, next_id, freed, maxCacheSize, req, panicked, reqOf, fwdCalls,
                   termCalls, herd, matchRes, pruned, waiter, passed, doubleUnpin, unpinner>>

\* PrunePoisoned under the write lock, and the deferred t.mu.Unlock()
PruneLocked ==
    /\ ~panicked
    /\ mu.writer = Pruner
    /\ node' = prunePoisonedRecursive(node, Root)
    /\ mu' = [mu EXCEPT !.writer = Nil]
    /\ UNCHANGED <<reg, regRet>>
    /\ UNCHANGED <<lruList, next_id, freed, maxCacheSize, req, panicked, reqOf, fwdCalls,
                   termCalls, herd, matchRes, pruned, waiter, passed, doubleUnpin, unpinner>>

NextLock ==
    \/ \E r \in Reqs, inputTokens \in Inputs, maxTokens \in 0..MaxGen :
          RLock(r, inputTokens, maxTokens)
    \/ \E r \in Reqs : MatchLocked(r)
    \/ \E r \in Reqs : GenWait(r)
    \/ \E r \in Reqs : Lock(r)
    \/ \E r \in Reqs : InsertLocked(r)
    \/ \E r \in Reqs : GoForwardOk(r)
    \/ \E r \in Reqs, e \in Errors : GoForwardErr(r, e)
    \/ \E r \in Reqs : GoPoison(r)
    \/ \E r \in Reqs : GoFinalize(r)
    \/ \E r \in Reqs : GoUnpin(r)
    \/ LockPrune
    \/ PruneLocked

SpecLock == Init /\ [][NextLock]_vars

\* ---------------------------------------------------------------- Registry.LoadModel / UnloadModel
TreeVars == <<node, lruList, next_id, freed, maxCacheSize, req, panicked, reqOf, fwdCalls,
              termCalls, herd, matchRes, pruned, waiter, passed, doubleUnpin, unpinner, mu>>

\* a LoadModel without the "already loaded" return
LoadModel_Reload(name) ==
    /\ IF name \notin DOMAIN reg.models
       THEN /\ reg' = reg
            /\ regRet' = [op |-> "LoadModel", name |-> name, err |-> "not found",
                          wasLoaded |-> FALSE]
       ELSE LET status == reg.models[name]
                room == IF reg.totalGB + status.MemoryGB > 32
                        THEN makeRoom(reg, status.MemoryGB) ELSE reg
            IN /\ reg' = [room EXCEPT !.loaded = @ \cup {name},
                                      !.models[name].Loaded = TRUE,
                                      !.totalGB = @ + status.MemoryGB]
               /\ regRet' = [op |-> "LoadModel", name |-> name, err |-> "nil",
                             wasLoaded |-> status.Loaded]
    /\ UNCHANGED TreeVars

LoadModel(name) ==
    /\ IF name \notin DOMAIN reg.models
       THEN /\ reg' = reg
            /\ regRet' = [op |-> "LoadModel", name |-> name, err |-> "not found",
                          wasLoaded |-> FALSE]
       ELSE LET status == reg.models[name] IN
            IF status.Loaded
            THEN /\ reg' = reg
                 /\ regRet' = [op |-> "LoadModel", name |-> name, err |-> "nil",
                               wasLoaded |-> TRUE]
            ELSE LET room == IF reg.totalGB + status.MemoryGB > 32
                             THEN makeRoom(reg, status.MemoryGB) ELSE reg
                 IN /\ reg' = [room EXCEPT !.loaded = @ \cup {name},
                                           !.models[name].Loaded = TRUE,
                                           !.totalGB = @ + status.MemoryGB]
                    /\ regRet' = [op |-> "LoadModel", name |-> name, err |-> "nil",
                                  wasLoaded |-> FALSE]
    /\ UNCHANGED TreeVars

\* GUIActorModel.Unload never fails
UnloadModel(name) ==
    /\ IF name \notin reg.loaded
       THEN /\ reg' = reg
            /\ regRet' = [op |-> "UnloadModel", name |-> name, err |-> "not loaded",
                          wasLoaded |-> FALSE]
       ELSE /\ reg' = [reg EXCEPT !.models[name].Loaded = FALSE,
                                  !.totalGB = @ - reg.models[name].MemoryGB,
                                  !.loaded = @ \ {name}]
            /\ regRet' = [op |-> "UnloadModel", name |-> name, err |-> "nil",
                          wasLoaded |-> TRUE]
    /\ UNCHANGED TreeVars

NextRegistry ==
    \/ \E name \in CallNames : LoadModel(name)
    \/ \E name \in CallNames : UnloadModel(name)

SpecRegistry == Init /\ [][NextRegistry]_vars

\* ---------------------------------------------------------------- one request after another
\* The server dispatches the next request to the handler: a request whose
\* call and whose finalizeNode goroutine have both returned is followed by a
\* fresh one.
ServeAgain(r) ==
    /\ ~panicked
    /\ req[r].pc = "done"
    /\ req[r].gpc \in {"none", "done"}
    /\ Cardinality(Ids(node)) <= MaxNodes
    /\ req' = [req EXCEPT ![r] = NoReq]
    /\ UNCHANGED <<node, lruList, next_id, freed, maxCacheSize, panicked, reqOf, fwdCalls,
                   termCalls, herd, matchRes, pruned, waiter, passed, doubleUnpin, unpinner,
                   mu, reg, regRet>>

NextServe ==
    \/ NextServer
    \/ \E r \in Reqs : ServeAgain(r)

SpecServe == Init /\ [][NextServe]_vars

\* ---------------------------------------------------------------- properties
Count(sq, x) == Cardinality({i \in 1..Len(sq) : sq[i] = x})

Poisoned(nd, n) == nd[n].ready /\ nd[n].err # NoErr

Finalized(nd, n) == nd[n].ready /\ nd[n].err = NoErr

\* the node most recently allocated by InsertPending(tokens)
NewestFor(rq, tokens) ==
    LET S == {i \in 1..Len(rq) : rq[i] = tokens}
    IN IF S = {} THEN Nil ELSE CHOOSE i \in S : \A j \in S : j <= i

\* C1: herd coalescing on an empty trie.  After N >= 1 InsertPending calls with
\* one non-empty sequence and nothing else, every call has returned node 1, node
\* 1 is the only non-root node, and its refCount is N.
C1_HerdCoalescing ==
    (herd.pure /\ herd.n >= 1) =>
        /\ herd.rets = {1}
        /\ Ids(node) = {Root, 1}
        /\ Attached(node) = {Root, 1}
        /\ node[1].refCount = herd.n

C1_HerdOfTwo == herd.pure /\ herd.n >= 2 /\ herd.rets = {1}

\* C2: when InsertPending(s) has returned a node, another InsertPending(s) on the
\* state it leaves (no PrunePoisoned, no eviction in between) returns that node.
C2_SameNodeForSameSequence ==
    [][\A tokens \in Seqs :
          InsertPending(tokens) => InsertRet(node', tokens) = InsertRet(node, tokens)]_vars

\* C3: across the requests that InsertPending coalesced onto one node, exactly
\* one ForwardWithCache call is issued for that node.
C3_OneForwardPerNode == \A n \in 1..Len(fwdCalls) : fwdCalls[n] <= 1

C5_MatchOnlyFinalized ==
    \A q \in Queries :
        LET m == match(node, q) IN
        (m # Nil /\ m # Root) =>
            /\ Finalized(node, m)
            /\ node[m].CacheHandle \in 1..(next_id - 1)

\* C6: the tokens on the edges of the attached non-root nodes never exceed the
\* configured budget.
C6_Budget == TotalTokens(node) <= maxCacheSize

\* C7: every handle held by an attached node was issued by the engine, and the
\* handle of every detached node has been passed to FreeCache exactly once.
C7_NoGhostHandles ==
    /\ \A n \in Attached(node) : node[n].CacheHandle \in 0..(next_id - 1)
    /\ \A n \in Ids(node) \ Attached(node) :
          node[n].CacheHandle # 0 => Count(freed, node[n].CacheHandle) = 1

\* C8: when PrunePoisoned returns, no node with an error and no node below a
\* node with an error is attached to the trie, whatever the depth.
C8_PoisonIsolation ==
    pruned =>
        \A n \in Attached(node) :
            /\ node[n].err = NoErr
            /\ \A a \in Ancestors(node, n) : node[a].err = NoErr

\* PrunePoisoned has cut a poisoned node out from under a
\* non-root parent (only PrunePoisoned empties a Children slot)
C8_PrunedBelowRoot ==
    \E p \in Ids(node) \ {Root} :
        /\ pruned
        /\ Poisoned(node, p)
        /\ p \notin Attached(node)
        /\ node[p].Parent \in Attached(node) \ {Root}
        /\ node[node[p].Parent].Children[node[p].Tokens[1]] = Nil

\* C9: when the node most recently allocated by InsertPending(s) is poisoned,
\* InsertPending(s) returns another node, and that node is pending, has no
\* error and refCount 1 (so FinalizeNode on it closes an open gate).
C9_PoisonRetry ==
    [][\A tokens \in Seqs :
          LET old == NewestFor(reqOf, tokens)
              ret == InsertRet(node, tokens)
          IN (InsertPendingN(tokens, MaxNodes + 1) /\ old # Nil /\ Poisoned(node, old))
                 => /\ ret # old
                    /\ ~node'[ret].ready
                    /\ node'[ret].err = NoErr
                    /\ node'[ret].refCount = 1]_vars

\* C10: FinalizeNode and PoisonNode are together invoked at most once per node.
C10_TerminalOnce == \A n \in 1..Len(termCalls) : termCalls[n] <= 1

\* C11: no Wait returns while its node is pending, and a Wait blocked on a node
\* that has been finalized or poisoned eventually returns, for every waiter and
\* for a caller that arrives after the gate was closed.
C11_GateBroadcast ==
    /\ [](\A w \in Waiters : waiter[w].pc = "returned" => node[waiter[w].n].ready)
    /\ \A w \in Waiters :
          (waiter[w].pc = "blocked" /\ node[waiter[w].n].ready) ~> (waiter[w].pc = "returned")

\* two waiters have returned from Wait on the same node
C11_TwoWaitersWoken ==
    /\ \A w \in Waiters : waiter[w].pc = "returned"
    /\ \E w1, w2 \in Waiters : w1 # w2 /\ waiter[w1].n = waiter[w2].n /\ waiter[w1].n # Root

\* C12: a Wait that has returned on a finalized node gave nil, and its caller
\* reads the handle that was passed to FinalizeNode; a Wait that has returned on
\* a poisoned node gave the error that was passed to PoisonNode, whichever the
\* waiter and however often it calls.
C12_WaitResult ==
    \A w \in Waiters :
        waiter[w].pc = "returned" =>
            LET n == waiter[w].n IN
            /\ passed[n].kind = "finalize" =>
                  waiter[w].err = NoErr /\ waiter[w].handle = passed[n].handle
            /\ passed[n].kind = "poison" => waiter[w].err = passed[n].err

\* one waiter holds the handle of a finalized node, another the error of a
\* poisoned node
C12_BothResultsSeen ==
    \E w1, w2 \in Waiters :
        /\ waiter[w1].pc = "returned" /\ passed[waiter[w1].n].kind = "finalize"
        /\ waiter[w1].handle >= 1
        /\ waiter[w2].pc = "returned" /\ passed[waiter[w2].n].kind = "poison"
        /\ waiter[w2].err = "Timeout"

\* C13: a node with refCount > 0 is not in the LRU list.
C13_PinnedNotInLru == \A i \in 1..Len(lruList) : node[lruList[i]].refCount = 0

\* C14: a node that has a child is not in the LRU list.
C14_InternalNotInLru == \A i \in 1..Len(lruList) : NumChildren(node, lruList[i]) = 0

\* C15: every node in the LRU list is ready: its gate was closed by
\* FinalizeNode, so it is neither pending nor poisoned.
C15_LruOnlyReady == \A i \in 1..Len(lruList) : Finalized(node, lruList[i])

\* the child whose edge the walk of InsertPending(tokens) stops inside: the
\* common prefix of that edge and what is left of tokens is non-empty but
\* shorter than the edge.  Nil when there is none.
RECURSIVE PartialChild(_, _, _)
PartialChild(nd, tokens, current) ==
    IF Len(tokens) = 0 THEN Nil
    ELSE LET child == nd[current].Children[tokens[1]] IN
         IF child = Nil THEN Nil
         ELSE LET common == longestCommonPrefix(tokens, nd[child].Tokens) IN
              IF common = Len(nd[child].Tokens)
              THEN IF common = Len(tokens) THEN Nil
                   ELSE PartialChild(nd, Tail0(tokens, common), child)
              ELSE IF common > 0 THEN child ELSE Nil

\* some node attached to the trie represents the sequence path
Represented(nd, path) == \E x \in Attached(nd) : PathTokens(nd, x) = path

\* C16: when InsertPending(s) stops inside the edge of an existing child, the
\* edge is split: afterwards the old child is still attached and represents the
\* sequence it represented, below a node that represents the common prefix, and
\* a node represents s.
C16_EdgeSplit ==
    [][\A tokens \in Seqs :
          LET old == PartialChild(node, tokens, Root) IN
          (InsertPending(tokens) /\ old # Nil) =>
              LET oldPath == PathTokens(node, old)
                  above == PathTokens(node, node[old].Parent)
                  common == longestCommonPrefix(Tail0(tokens, Len(above)), node[old].Tokens)
              IN /\ old \in Attached(node')
                 /\ PathTokens(node', old) = oldPath
                 /\ Len(node'[old].Tokens) = Len(node[old].Tokens) - common
                 /\ PathTokens(node', node'[old].Parent) = SubSeq(oldPath, 1, Len(above) + common)
                 /\ Represented(node', tokens)]_vars

\* C17: every attached node InsertPending(s) allocated has a root-to-node
\* concatenation equal to s, every attached non-root node has a non-empty
\* edge, and every child sits under the key equal to the first token of its
\* edge.
C17_RadixPath ==
    \A n \in Attached(node) \ {Root} :
        /\ PathTokens(node, n) = reqOf[n]
        /\ Len(node[n].Tokens) > 0
        /\ node[node[n].Parent].Children[node[n].Tokens[1]] = n

\* C18: when InsertPending(s) has to create a node whose edge would push the
\* token total past the budget while the LRU list is empty, it fails and the
\* trie has the nodes it had.
C18_Backpressure ==
    [][\A tokens \in Seqs :
          LET found == findExactOrPending(node, tokens, Root) IN
          (/\ InsertPending(tokens)
           /\ found[1] = Nil
           /\ TotalTokens(node) + Len(found[2]) > maxCacheSize
           /\ lruList = <<>>)
              => Ids(node') = Ids(node) /\ Attached(node') = Attached(node)]_vars

\* node x is held in the Children of its parent
Held(nd, x) == nd[nd[x].Parent].Children[nd[x].Tokens[1]] = x

\* C19: EvictLRU(k) takes the min(k, |LRU|) nodes at the back of the LRU list,
\* the ones unpinned earliest: exactly these leave the Children of their
\* parents and the list, every other node stays where it was, the rest of the
\* list keeps its order, and EvictLRU(0) changes neither the trie nor the list.
C19_EvictOrder ==
    [][\A k \in 0..MaxEvict :
          EvictLRU(k) =>
              LET len == Len(lruList)
                  m == IF k < len THEN k ELSE len
                  victims == {lruList[i] : i \in (len - m + 1)..len}
              IN /\ \A x \in Ids(node) \ {Root} :
                        Held(node', x) <=> (Held(node, x) /\ x \notin victims)
                 /\ \A i \in 1..Len(lruList') : lruList'[i] \notin victims
                 /\ Len(lruList') >= len - m
                 /\ SubSeq(lruList', Len(lruList') - (len - m) + 1, Len(lruList'))
                        = SubSeq(lruList, 1, len - m)
                 /\ k = 0 => (node' = node /\ lruList' = lruList)]_vars

\* C20: when no existing node covers s, InsertPending(s) allocates one node; it
\* is pending, has refCount 1, is held by the deepest ready or pending node
\* whose path is a prefix of s, and its edge is s without that path.
C20_CreatePath ==
    [][\A tokens \in Seqs :
          LET found == findExactOrPending(node, tokens, Root)
              id == Cardinality(Ids(node))
          IN (InsertPending(tokens) /\ found[1] = Nil) =>
                 /\ Ids(node') = Ids(node) \cup {id}
                 /\ ~node'[id].ready
                 /\ node'[id].err = NoErr
                 /\ node'[id].refCount = 1
                 /\ LET parent == node'[id].Parent
                        above == {x \in Attached(node) :
                                     /\ node[x].err = NoErr
                                     /\ IsPrefix(PathTokens(node, x), tokens)}
                    IN /\ parent \in above
                       /\ \A x \in above :
                             Len(PathTokens(node, x)) <= Len(PathTokens(node, parent))
                       /\ Held(node', id)
                       /\ node'[id].Tokens = Tail0(tokens, Len(PathTokens(node, parent)))]_vars

\* the non-poisoned attached nodes whose root-to-node concatenation is tokens
Covering(nd, tokens) ==
    {x \in Attached(nd) \ {Root} : PathTokens(nd, x) = tokens /\ nd[x].err = NoErr}

\* C21: when a node without error, pending or ready, exactly covers s,
\* InsertPending(s) returns that node and adds one to its refCount; no node is
\* allocated, no other field of any node changes and the LRU list is as it was.
C21_ReusePath ==
    [][\A tokens \in Seqs :
          (InsertPending(tokens) /\ Covering(node, tokens) # {}) =>
              LET x == InsertRet(node, tokens) IN
              /\ x \in Covering(node, tokens)
              /\ node' = [node EXCEPT ![x].refCount = @ + 1]
              /\ lruList' = lruList]_vars

\* InsertPending has been answered with a pending node and with a finalized
\* node that already covered the sequence: both are pinned twice
C21_ReusedPendingAndReady ==
    /\ Ids(node) = {Root, 1, 2}
    /\ node[1].refCount = 2 /\ node[2].refCount = 2
    /\ Finalized(node, 1) /\ ~node[2].ready

\* C22: the bulk insert of a request that generated k >= 1 tokens after prompt
\* p allocates at most one node; the node's edge is the whole generated run and
\* it is held by a node whose root-to-node concatenation is p.
C22_BulkInsert ==
    [][\A r \in Reqs :
          (GenInsert(r) /\ Len(req[r].buffer) >= 1) =>
              LET new == Ids(node') \ Ids(node) IN
              /\ Cardinality(new) <= 1
              /\ \A id \in new :
                    /\ node'[id].Tokens = req[r].buffer
                    /\ Held(node', id)
                    /\ PathTokens(node', node'[id].Parent) = req[r].input]_vars

\* every request has returned from GenerateAutoregressive and no finalizeNode
\* goroutine is left running
AllDone ==
    \A r \in Reqs : req[r].pc \in {"idle", "done"} /\ req[r].gpc \in {"none", "done"}

\* C23: once every request and every finalizeNode goroutine has completed,
\* whether the engine succeeded or failed, every node has refCount 0.
C23_PinsReleased ==
    (~panicked /\ AllDone) => \A n \in Ids(node) : node[n].refCount = 0

\* C24: when ForwardWithCache failed for the node a request drives, the node is
\* poisoned and then pruned: once the requests and their finalizeNode
\* goroutines have completed, the failed node is no longer attached to the trie.
C24_FailedNodePruned ==
    (~panicked /\ AllDone) =>
        \A r \in Reqs :
            (req[r].gpc = "done" /\ req[r].err # NoErr) => req[r].node \notin Attached(node)

\* the cache: the trie, the LRU list, the engine's handles and the calls made
\* on behalf of nodes
cache == <<node, lruList, next_id, freed, reqOf, fwdCalls, termCalls, passed>>

\* C25: a request with a verb other than POST is answered 405, one whose body
\* does not decode, has no message or fails tokenization is answered 400, and
\* the call leaves the cache as it was: no node is created, pinned, finalized or
\* removed and no engine call is made, then or later, for that request.
C25_RejectedLeavesCache ==
    /\ [][\A r \in Reqs :
             (req[r].pc = "idle" /\ req'[r].pc # "idle") =>
                 \A method \in Methods, decodes \in BOOLEAN, messages \in Bodies,
                    maxTokens \in 0..MaxGen :
                    (/\ \/ method # "POST"
                        \/ ~decodes
                        \/ Len(messages) = 0
                        \/ TokenizeFails(messages)
                     /\ ChatCompletionHandler(r, method, decodes, messages, maxTokens))
                        => /\ req'[r].rejected = IF method # "POST" THEN 405 ELSE 400
                           /\ req'[r].pc = "done" /\ req'[r].gpc = "none"
                           /\ req'[r].node = Nil
                           /\ UNCHANGED cache]_vars
    /\ [][\A r \in Reqs : req[r].rejected # 0 => req'[r] = req[r]]_vars

\* a request was turned away after an earlier request had put a node into the
\* trie
C25_RejectedBesideNode ==
    /\ Ids(node) # {Root}
    /\ \E r \in Reqs : req[r].rejected \in {400, 405}

\* the attached non-root nodes whose whole edge a walk along q consumes
Consumed(nd, q) == {x \in Attached(nd) \ {Root} : IsPrefix(PathTokens(nd, x), q)}

\* the deepest ready node among them, Nil when there is none
BestOnWay(nd, q) ==
    LET R == {x \in Consumed(nd, q) : Finalized(nd, x)}
    IN IF R = {} THEN Nil
       ELSE CHOOSE x \in R : \A y \in R : Len(PathTokens(nd, y)) <= Len(PathTokens(nd, x))

\* the child the walk along q stops inside with the query exhausted: what is
\* left of q below the child's parent is a non-empty proper prefix of the edge
MidEdge(nd, q) ==
    {c \in Attached(nd) \ {Root} :
        LET above == PathTokens(nd, nd[c].Parent)
            rest == Tail0(q, Len(above))
        IN /\ IsPrefix(above, q)
           /\ Len(rest) >= 1
           /\ Len(rest) < Len(nd[c].Tokens)
           /\ IsPrefix(rest, nd[c].Tokens)}

\* C26: when what is left of the query is a proper prefix of the next child's
\* edge, Match returns that child if it is ready, and otherwise the best match
\* found on the way down.
C26_MatchMidEdge ==
    \A q \in Queries : \A c \in MidEdge(node, q) :
        match(node, q) = IF Finalized(node, c) THEN c ELSE BestOnWay(node, q)

\* the child the walk along q stops inside with tokens left on both sides: the
\* edge and what is left of q below the child's parent agree on their first
\* token and differ before either ends
Diverging(nd, q) ==
    {c \in Attached(nd) \ {Root} :
        LET above == PathTokens(nd, nd[c].Parent)
            rest == Tail0(q, Len(above))
        IN /\ IsPrefix(above, q)
           /\ Len(rest) >= 1
           /\ rest[1] = nd[c].Tokens[1]
           /\ longestCommonPrefix(rest, nd[c].Tokens) < Len(rest)
           /\ longestCommonPrefix(rest, nd[c].Tokens) < Len(nd[c].Tokens)}

\* C27: when the query and the next child's edge diverge before either is
\* exhausted, Match returns the deepest ready node whose whole edge was
\* consumed on the way down, nil when there is none, and never the partially
\* matching child.
C27_MatchDivergence ==
    \A q \in Queries : \A c \in Diverging(node, q) :
        match(node, q) = BestOnWay(node, q) /\ match(node, q) # c

\* C28: a Match call changes no node (children, parent, edge, gate, error,
\* handle, refCount, LRU membership), allocates none and leaves the LRU list
\* with the same entries in the same order, so that the next Match of the same
\* query returns the same node.
C28_MatchReadOnly ==
    [][LET q == matchRes'.tokens IN
       (matchRes'.called /\ Match(q)) =>
           /\ node' = node
           /\ lruList' = lruList
           /\ UNCHANGED <<next_id, freed>>
           /\ matchRes'.ret = match(node, q)
           /\ match(node', q) = matchRes'.ret]_vars

\* Match has returned a pinned node below the root while another node waits in
\* the LRU list
C28_MatchedBesideLru ==
    /\ matchRes.called
    /\ matchRes.ret \in Ids(node) \ {Root}
    /\ node[matchRes.ret].refCount >= 1
    /\ Len(lruList) >= 1

\* the list sq with every entry x taken out
Without(sq, x) == SelectSeq(sq, LAMBDA y : y # x)

\* C29: Unpin of a pinned node takes one from its refCount; it puts the node at
\* the front of the LRU list when the new count is 0 and the node is a ready
\* leaf, and in every other case (still pinned, has children, pending) leaves
\* the list as it was.
C29_UnpinRule ==
    [][\A n \in Ids(node) \ {Root} :
          (Unpin(n) /\ node[n].refCount >= 1) =>
              /\ node'[n].refCount = node[n].refCount - 1
              /\ lruList' = IF /\ node[n].refCount = 1
                               /\ NumChildren(node, n) = 0
                               /\ Finalized(node, n)
                            THEN <<n>> \o Without(lruList, n)
                            ELSE lruList]_vars

\* C30: no refCount is ever negative, and an Unpin of a node whose refCount is
\* 0 leaves the count at 0, every node as it was and the LRU list with the same
\* entries in the same order.
C30_DoubleUnpin ==
    /\ [](\A n \in Ids(node) : node[n].refCount >= 0)
    /\ [][\A n \in Ids(node) \ {Root} :
             (Unpin(n) /\ node[n].refCount = 0) =>
                 /\ node'[n].refCount = 0
                 /\ node' = node
                 /\ lruList' = lruList]_vars

\* a node in the LRU list has just been unpinned once more
C30_UnpinnedTwice ==
    /\ doubleUnpin
    /\ Len(lruList) >= 1
    /\ node[lruList[1]].refCount = 0

\* C31: whatever runs between the decrement of an Unpin and the rest of its
\* body (an InsertPending that pins the node, another Unpin, the attachment of
\* a child), an Unpin puts its node into the LRU list only when, at that
\* moment, the node is unpinned.
C31_GuardedLruInsertion ==
    [][\A u \in Unpinners :
          (UnpinRest(u) /\ lruList' # lruList) => node[unpinner[u].n].refCount = 0]_vars

\* the attached nodes that have no error and no ancestor with an error
Sound(nd) ==
    {n \in Attached(nd) : nd[n].err = NoErr /\ \A a \in Ancestors(nd, n) : nd[a].err = NoErr}

\* C32: PrunePoisoned leaves every attached node that has no error and no
\* ancestor with an error, ready or pending, attached under the same parent
\* with its edge, gate, handle and refCount, and changes nothing when no
\* attached node has an error.
C32_PruneOnlyPoisoned ==
    [][PrunePoisoned =>
          /\ \A n \in Sound(node) \ {Root} :
                /\ n \in Attached(node')
                /\ node'[n].Parent = node[n].Parent
                /\ Held(node', n)
                /\ [node'[n] EXCEPT !.Children = node[n].Children] = node[n]
          /\ (\A n \in Attached(node) : node[n].err = NoErr)
                 => (node' = node /\ lruList' = lruList)]_vars

\* PrunePoisoned has cut a poisoned node out and left a pending node and its
\* parent in place
C32_PrunedBesidePending ==
    /\ pruned
    /\ \E p \in Ids(node) : Poisoned(node, p) /\ p \notin Attached(node)
    /\ \E n \in Attached(node) \ {Root} : ~node[n].ready /\ node[n].err = NoErr

\* C33: the node InsertPending allocates is never held by a node with an
\* error: its parent has none, and the new node is still attached after a
\* PrunePoisoned that follows.
C33_PoisonedTreatedAbsent ==
    [][\A tokens \in Seqs :
          LET id == Cardinality(Ids(node)) IN
          (InsertPending(tokens) /\ id \in Ids(node')) =>
              /\ node'[node'[id].Parent].err = NoErr
              /\ id \in Attached(prunePoisonedRecursive(node', Root))]_vars

\* C34: lock discipline.  A thread that holds Tree.mu is inside Match,
\* InsertPending or PrunePoisoned: it is not blocked on a readiness gate, its
\* request's finalizeNode (the engine call) has not been launched or is not
\* in the engine, and the step that releases the lock is enabled, so the
\* holder never waits for anything else while holding it.
C34_LockDiscipline ==
    /\ \A r \in Reqs :
          (req[r].pc = "wait" \/ req[r].gpc = "forward") => r \notin Holders
    /\ \A r \in mu.readers : req[r].pc = "Match"
    /\ mu.writer \in Reqs => req[mu.writer].pc = "InsertPending"
    /\ ~panicked =>
          /\ \A r \in mu.readers : ENABLED MatchLocked(r)
          /\ mu.writer \in Reqs => ENABLED InsertLocked(mu.writer)
          /\ mu.writer = Pruner => ENABLED PruneLocked

\* one request holds the lock while another request's finalizeNode is in
\* the engine call
C34_HeldBesideEngineCall ==
    \E r1, r2 \in Reqs :
        /\ r1 # r2
        /\ r1 \in Holders
        /\ req[r2].gpc = "forward"

\* C35: GenerateAutoregressive terminates for every input sequence and every
\* maxTokens: a request that has entered it reaches its return (or the
\* process has died of a panic), and with maxTokens > 0 the generation loop
\* produces at most maxTokens tokens.
C35_GenerateTerminates ==
    /\ [](\A inputTokens \in Inputs, maxTokens \in 1..MaxGen :
             Len(genLoop(inputTokens, maxTokens, <<>>)) <= maxTokens)
    /\ \A r \in Reqs : (req[r].pc # "idle") ~> (req[r].pc = "done" \/ panicked)

RECURSIVE SumGB(_, _)
SumGB(r, names) ==
    IF names = {} THEN 0
    ELSE LET name == CHOOSE x \in names : TRUE
         IN r.models[name].MemoryGB + SumGB(r, names \ {name})

\* C36: in the model registry a LoadModel of a loaded model returns nil and
\* an UnloadModel of a model that is not loaded, or not known, returns an
\* error, and both leave the registry as it was; at every point a model is
\* in the loaded set iff its Loaded flag is set, and totalGB is the sum of
\* MemoryGB over the loaded set, each model counted once.
C36_RegistryRedundantOps ==
    /\ [](/\ reg.loaded \subseteq DOMAIN reg.models
          /\ \A name \in DOMAIN reg.models : name \in reg.loaded <=> reg.models[name].Loaded
          /\ reg.totalGB = SumGB(reg, reg.loaded))
    /\ [][\A name \in CallNames :
             /\ (LoadModel(name) /\ name \in reg.loaded) =>
                    (regRet'.err = "nil" /\ reg' = reg)
             /\ (UnloadModel(name) /\ name \notin reg.loaded) =>
                    (regRet'.err # "nil" /\ reg' = reg)]_vars

\* a second LoadModel of a loaded model has returned nil beside another
\* loaded model
C36_LoadedTwice ==
    /\ regRet.op = "LoadModel"
    /\ regRet.wasLoaded
    /\ regRet.err = "nil"
    /\ Cardinality(reg.loaded) >= 2

\* C37: InsertPending never loses a node: every node without an error that
\* is attached to the trie before the call is attached after it.
C37_InsertKeepsNodes ==
    [][\A tokens \in Seqs :
          InsertPending(tokens) =>
              \A n \in Attached(node) : node[n].err = NoErr => n \in Attached(node')]_vars

\* C38: LRU list integrity: every element of the LRU list is a node attached
\* to the trie, no node is in the list twice, and a node's lruElem is set
\* exactly when the node is in the list.
C38_LruIntegrity ==
    /\ \A i \in 1..Len(lruList) : lruList[i] \in Attached(node)
    /\ \A i, j \in 1..Len(lruList) : lruList[i] = lruList[j] => i = j
    /\ \A n \in Ids(node) : node[n].lruElem <=> \E i \in 1..Len(lruList) : lruList[i] = n

\* C39: the node that Match returned to a request stays attached to the trie
\* while the request still has its handle to use: from the return of Match
\* until the request's own bulk insert, no other request detaches it (a
\* node with an error aside: Wait makes the request drop its handle).
C39_MatchedNodeProtected ==
    \A r \in Reqs :
        (/\ req[r].pc \in {"wait", "insert"}
         /\ req[r].baseNode # Nil
         /\ node[req[r].baseNode].err = NoErr) =>
            req[r].baseNode \in Attached(node)

====
